---- MODULE Spec2Model ----
(***************************************************************************)
(* Lab results form field of the patient orders app.                       *)
(*                                                                         *)
(* Two revisions of the component are in the source tree:                  *)
(*   lab-results-form-field.component.tsx  (ResultFormField + ConceptField)*)
(*   unnamed/part_000                      (ResultFormField, inline JSX)   *)
(* Both share the same ImageHandlerInput.  The image capture adapter is    *)
(* modelled as a state machine (Spec, SpecExt); the field resolver, the    *)
(* reference range formatter and the pre-fill lookup are pure functions    *)
(* applied by the Render action to bounded families of props (SpecRender). *)
(***************************************************************************)
EXTENDS Integers, Sequences, FiniteSets, TLC

VARIABLES
    formValues,             \* react-hook-form value map: field name -> UploadedFile | undefined
    modals,                 \* capture workflows opened through showModal, in opening order
    snackbars,              \* notifications handed to showSnackbar, in order
    allowedFileExtensions,  \* what useAllowedFileExtensions() currently returns
    lastOp,                 \* the handler that ran last, with its effects in program order
    component,              \* which revision of the resolver renders
    concept,                \* props.concept of ResultFormField
    defaultValue,           \* props.defaultValue of ResultFormField (an Observation)
    config,                 \* useConfig(): the concepts configured as image-capturing
    rendered                \* the widgets of the last render pass, in document order

vars == <<formValues, modals, snackbars, allowedFileExtensions, lastOp,
          component, concept, defaultValue, config, rendered>>

adapterVars  == <<formValues, modals, snackbars, allowedFileExtensions, lastOp>>
resolverVars == <<component, concept, defaultValue, config, rendered>>

(***************************************************************************)
(* Bounds of the model.                                                    *)
(***************************************************************************)
MaxModals    == 2   \* capture workflows opened in one run
MaxSnackbars == 2   \* notifications recorded in one run
MaxExts      == 3   \* length of the allowed-extensions list
MaxMembers   == 2   \* members of a panel

(***************************************************************************)
(* JavaScript values.  undefined is the string "undefined"; an UploadedFile *)
(* object is named by a string and its properties are looked up.           *)
(***************************************************************************)
undefined == "undefined"

Files == {"fileA", "fileB"}

UploadedFile(f) ==
    CASE f = "fileA" -> [fileName |-> "a.png", base64Content |-> "data:image/png;base64,AAAA",
                         fileDescription |-> "left arm"]
      [] f = "fileB" -> [fileName |-> "b.jpg", base64Content |-> "data:image/jpeg;base64,BBBB",
                         fileDescription |-> undefined]

\* ToBoolean of a field value: an object is truthy, undefined is falsy
Truthy(v) == v # undefined

ImageFields == {"img1", "img2"}

(***************************************************************************)
(* useAllowedFileExtensions(): an array of extensions, or something that is *)
(* not an array.  An extension is the sequence of its characters.          *)
(***************************************************************************)
Exts ==
    { <<"j","p","g">>, <<"P","D","F">>, <<"p","n","g">>, <<"p","d","f">>,
      <<"x","P","d","F","a">>, <<"p","d">> }

RECURSIVE SeqsUpTo(_, _)
SeqsUpTo(S, n) ==
    IF n = 0 THEN {<<>>}
    ELSE LET shorter == SeqsUpTo(S, n - 1)
         IN  shorter \cup {Append(s, x) : s \in {t \in shorter : Len(t) = n - 1}, x \in S}

ExtensionResults ==
    {[kind |-> "undefined", items |-> <<>>], [kind |-> "null", items |-> <<>>],
     [kind |-> "string", items |-> <<>>]}
    \cup {[kind |-> "array", items |-> l] : l \in SeqsUpTo(Exts, MaxExts)}

\* the few results the adapter specification moves between
FewExtensionResults ==
    {[kind |-> "undefined", items |-> <<>>],
     [kind |-> "array", items |-> << <<"j","p","g">>, <<"P","D","F">>, <<"p","n","g">> >>]}

\* canonicalisation of the 'i' flag on the letters of the pattern
ToLowerCase(ch) ==
    CASE ch = "P" -> "p" [] ch = "D" -> "d" [] ch = "F" -> "f" [] OTHER -> ch

\* variant: /pdf/ without the i flag
TestPdfCaseSensitive(ext) ==
    \E i \in 1..(Len(ext) - 2) : ext[i] = "p" /\ ext[i + 1] = "d" /\ ext[i + 2] = "f"

\* /pdf/i.test(ext): the pattern occurs somewhere in ext, in any letter case
TestPdf(ext) ==
    \E i \in 1..(Len(ext) - 2) :
        /\ ToLowerCase(ext[i]) = "p"
        /\ ToLowerCase(ext[i + 1]) = "d"
        /\ ToLowerCase(ext[i + 2]) = "f"

\* the filter callback: (ext) => !/pdf/i.test(ext)
NotPdf(ext) == ~TestPdf(ext)

\* allowedFileExtensions && Array.isArray(allowedFileExtensions) ? filter : []
allowedExtensions(result) ==
    IF result.kind \notin {"undefined", "null"} /\ result.kind = "array"
    THEN SelectSeq(result.items, NotPdf)   \* Array.prototype.filter
    ELSE <<>>

(***************************************************************************)
(* Effects of the handlers, in program order.                              *)
(***************************************************************************)
SetValueEffect(v) == [e |-> "setValue", v |-> v]
CloseEffect       == [e |-> "close", v |-> undefined]
SnackbarEffect    == [e |-> "showSnackbar", v |-> "imageRemoved"]

\* variant: saveFile without the `if (file)` guard
saveFileNoGuard(file) == <<SetValueEffect(file), CloseEffect>>

\* variant: saveFile closing the workflow before it stores the file
saveFileCloseFirst(file) ==
    <<CloseEffect>> \o (IF Truthy(file) THEN <<SetValueEffect(file)>> ELSE <<>>)

\* saveFile: (file) => { if (file) { setValue(file) }; close(); ... }
saveFile(file) ==
    (IF Truthy(file) THEN <<SetValueEffect(file)>> ELSE <<>>) \o <<CloseEffect>>

\* closeModal: () => { close() }
closeModal == <<CloseEffect>>

\* variant: handleRemoveImage without the notification
handleRemoveImageSilent == <<SetValueEffect(undefined)>>

\* handleRemoveImage: setValue(undefined); showSnackbar({...})
handleRemoveImage == <<SetValueEffect(undefined), SnackbarEffect>>

\* variant: a setter that keeps the attachment a field already holds
FieldSetValueKeepFirst(values, name, v) ==
    IF Truthy(values[name]) /\ Truthy(v) THEN values ELSE [values EXCEPT ![name] = v]

\* setValue={(v) => setValue(field.name, v)}: the slot of this field is overwritten
FieldSetValue(values, name, v) == [values EXCEPT ![name] = v]

Snackbar == [title |-> "Image removed", kind |-> "success", isLowContrast |-> TRUE]

\* the payload showModal('capture-photo-modal', {...}) is called with
CaptureModal(field) ==
    [name |-> "capture-photo-modal", field |-> field, open |-> TRUE,
     allowedExtensions |-> allowedExtensions(allowedFileExtensions),
     collectDescription |-> TRUE, multipleFiles |-> TRUE]

\* one effect applied to <<formValues, modals, snackbars>>
ApplyEffect(st, eff, field, m) ==
    CASE eff.e = "setValue" ->
            [st EXCEPT !.formValues = FieldSetValue(st.formValues, field, eff.v)]
      [] eff.e = "close" ->
            [st EXCEPT !.modals = [st.modals EXCEPT ![m].open = FALSE]]
      [] eff.e = "showSnackbar" ->
            [st EXCEPT !.snackbars = Append(st.snackbars, Snackbar)]

RECURSIVE ApplyEffects(_, _, _, _)
ApplyEffects(st, effs, field, m) ==
    IF effs = <<>> THEN st
    ELSE ApplyEffects(ApplyEffect(st, Head(effs), field, m), Tail(effs), field, m)

Run(op, field, m, arg, effs) ==
    LET st == ApplyEffects([formValues |-> formValues, modals |-> modals,
                            snackbars |-> snackbars], effs, field, m)
    IN  /\ formValues' = st.formValues
        /\ modals' = st.modals
        /\ snackbars' = st.snackbars
        /\ lastOp' = [op |-> op, field |-> field, modal |-> m, arg |-> arg,
                      before |-> formValues[field], effects |-> effs]

(***************************************************************************)
(* What ImageHandlerInput renders for a value.                             *)
(***************************************************************************)
ImageHandlerInputView(value) ==
    [addButton |-> TRUE,
     thumbnails |->
        IF Truthy(value)
        THEN <<[src |-> UploadedFile(value).base64Content,
                alt |-> IF UploadedFile(value).fileDescription # undefined
                        THEN UploadedFile(value).fileDescription
                        ELSE UploadedFile(value).fileName,
                removeButton |-> TRUE]>>
        ELSE <<>>]

(***************************************************************************)
(* Concepts, observations and configuration as the resolver reads them.    *)
(*                                                                         *)
(* isText, isNumeric, isCoded and isPanel are predicates of the concept    *)
(* classification resource; their answers are carried by the concept.      *)
(* isImage asks the configuration whether the concept is image-capturing.  *)
(***************************************************************************)
isText(c)    == c.isText
isNumeric(c) == c.isNumeric
isCoded(c)   == c.isCoded
isPanel(c)   == c.isPanel
isImage(c, cfg) == c.uuid \in cfg

\* a number | null | undefined property: numbers are kept in tenths
Null   == [isNull |-> TRUE, tenths |-> 0]
Num(n) == [isNull |-> FALSE, tenths |-> n]

\* values of an observation: undefined, an object with a uuid, or a primitive
Undef   == [kind |-> "undefined", uuid |-> undefined, raw |-> undefined]
Obj(u)  == [kind |-> "object", uuid |-> u, raw |-> undefined]
Prim(r) == [kind |-> "primitive", uuid |-> undefined, raw |-> r]

\* v?.uuid
PropUuid(v) == IF v.kind = "object" THEN Prim(v.uuid) ELSE Undef

Digits == <<"0", "1", "2", "3", "4", "5", "6", "7", "8", "9">>

\* Number.prototype.toString of a non-negative integer
RECURSIVE IntToString(_)
IntToString(n) ==
    IF n < 10 THEN Digits[n + 1] ELSE IntToString(n \div 10) \o Digits[(n % 10) + 1]

\* `${x}` of a number given in tenths: 35 is "3.5", 100 is "10", -5 is "-0.5"
NumberToString(x) ==
    LET a == IF x.tenths < 0 THEN -x.tenths ELSE x.tenths
    IN  (IF x.tenths < 0 THEN "-" ELSE "")
        \o IntToString(a \div 10)
        \o (IF a % 10 = 0 THEN "" ELSE "." \o Digits[(a % 10) + 1])

\* ToBoolean of a string | undefined
TruthyString(str) == str # undefined /\ str # ""

(***************************************************************************)
(* formatLabRange (the same text in both revisions).                       *)
(***************************************************************************)
formatLabRange(c) ==
    IF c.hl7Abbreviation # "NM" THEN ""
    ELSE LET displayUnit    == IF TruthyString(c.units) THEN " " \o c.units ELSE ""
             hasLowerLimit  == ~c.lowAbsolute.isNull
             hasUpperLimit  == ~c.hiAbsolute.isNull
         IN  IF hasLowerLimit /\ hasUpperLimit
             THEN " (" \o NumberToString(c.lowAbsolute) \o " - " \o NumberToString(c.hiAbsolute)
                       \o " " \o displayUnit \o ")"
             ELSE IF hasUpperLimit
             THEN " (<= " \o NumberToString(c.hiAbsolute) \o " " \o displayUnit \o ")"
             ELSE IF hasLowerLimit
             THEN " (>= " \o NumberToString(c.lowAbsolute) \o " " \o displayUnit \o ")"
             ELSE IF TruthyString(c.units) THEN " (" \o displayUnit \o ")" ELSE ""

\* `${concept?.display ? concept.display + ' ' : ''}${formatLabRange(concept)}`
LabelText(c) ==
    (IF TruthyString(c.display) THEN c.display \o " " ELSE "") \o formatLabRange(c)

(***************************************************************************)
(* getSavedMemberValue.                                                    *)
(***************************************************************************)
\* groupMembers?.find((member) => member.concept.uuid === conceptUuid)?.value
FindGroupMemberValue(obs, conceptUuid) ==
    LET hits == {i \in 1..Len(obs.groupMembers) : obs.groupMembers[i].concept = conceptUuid}
    IN  IF ~obs.present \/ hits = {} THEN Undef
        ELSE obs.groupMembers[CHOOSE i \in hits : \A j \in hits : i <= j].value

\* part_000: the group-member lookup only
getSavedMemberValue_part000(obs, conceptUuid, dataType) ==
    IF dataType = "Coded"
    THEN PropUuid(FindGroupMemberValue(obs, conceptUuid))
    ELSE FindGroupMemberValue(obs, conceptUuid)

\* lab-results-form-field.component.tsx: the observation's own concept first
getSavedMemberValue(obs, conceptUuid, dataType) ==
    IF obs.present /\ conceptUuid = obs.concept
    THEN obs.value
    ELSE IF dataType = "Coded"
         THEN PropUuid(FindGroupMemberValue(obs, conceptUuid))
         ELSE FindGroupMemberValue(obs, conceptUuid)

(***************************************************************************)
(* Widgets.                                                                *)
(***************************************************************************)
Widget(kind, c, id, label, dv, children) ==
    [widget |-> kind, name |-> c.uuid, id |-> id, labelText |-> label,
     defaultValue |-> dv, children |-> children]

TextInput(c, id)   == Widget("TextInput", c, id, LabelText(c), Undef, <<>>)
NumberInput(c, id) == Widget("NumberInput", c, id, LabelText(c), Undef, <<>>)
ImageHandlerInput(c) ==
    Widget("ImageHandlerInput", c, undefined,
           IF TruthyString(c.display) THEN c.display ELSE "", Undef, <<>>)

SelectItem(text, value) == [node |-> "SelectItem", text |-> text, value |-> value]
ChooseAnOption == SelectItem("Choose an option", "")

RECURSIVE AnswerItems(_)
AnswerItems(answers) ==
    IF answers = <<>> THEN <<>>
    ELSE <<SelectItem(Head(answers).display, Head(answers).uuid)>> \o AnswerItems(Tail(answers))

\* a child React renders as text, and a call that throws while rendering
TextNode(text) == [node |-> "text", text |-> text, value |-> undefined]
TypeErrorNode  == [node |-> "TypeError", text |-> "answers.map is not a function",
                   value |-> undefined]

\* the value of concept.answers: undefined, null, an array, a non-empty string
\* (it has a length but no map) or a plain object (neither)
Nullish(answers) == answers.kind \in {"undefined", "null"}

\* {concept?.answers?.length && concept?.answers?.map(...)}: an undefined
\* length renders nothing, the length 0 renders as the text "0", and a truthy
\* length leads to the call of map
AnswersGuardedByLength(c) ==
    IF Nullish(c.answers) \/ c.answers.kind = "object" THEN <<>>
    ELSE IF c.answers.kind = "string" THEN <<TypeErrorNode>>
    ELSE IF Len(c.answers.items) = 0 THEN <<TextNode("0")>>
    ELSE AnswerItems(c.answers.items)

\* {member?.answers?.map(...)}: only a nullish list skips the call of map
AnswersMapped(c) ==
    IF Nullish(c.answers) THEN <<>>
    ELSE IF c.answers.kind = "array" THEN AnswerItems(c.answers.items)
    ELSE <<TypeErrorNode>>

Select(c, dv, children) ==
    Widget("Select", c, "select-" \o c.uuid, LabelText(c), dv, <<ChooseAnOption>> \o children)

(***************************************************************************)
(* lab-results-form-field.component.tsx: ConceptField and ResultFormField. *)
(***************************************************************************)
\* variant: the text branch ahead of the image branch
ConceptFieldTextFirst(c, obs, cfg) ==
    IF isText(c) THEN <<TextInput(c, c.uuid)>>
    ELSE IF isImage(c, cfg) THEN <<ImageHandlerInput(c)>>
    ELSE IF isNumeric(c) THEN <<NumberInput(c, c.uuid)>>
    ELSE IF isCoded(c)
    THEN <<Select(c, getSavedMemberValue(obs, c.uuid, c.datatype), AnswersGuardedByLength(c))>>
    ELSE <<>>

\* ConceptField: the first branch whose predicate holds returns its widget
ConceptField(c, obs, cfg) ==
    IF isImage(c, cfg) THEN <<ImageHandlerInput(c)>>
    ELSE IF isText(c) THEN <<TextInput(c, c.uuid)>>
    ELSE IF isNumeric(c) THEN <<NumberInput(c, c.uuid)>>
    ELSE IF isCoded(c)
    THEN <<Select(c, getSavedMemberValue(obs, c.uuid, c.datatype), AnswersGuardedByLength(c))>>
    ELSE <<>>

\* concept.setMembers.map((member) => <ConceptField concept={member} .../>)
RECURSIVE MemberFields(_, _, _)
MemberFields(members, obs, cfg) ==
    IF members = <<>> THEN <<>>
    ELSE ConceptField(Head(members), obs, cfg) \o MemberFields(Tail(members), obs, cfg)

\* variant: the members rendered last to first
RECURSIVE MemberFieldsReversed(_, _, _)
MemberFieldsReversed(members, obs, cfg) ==
    IF members = <<>> THEN <<>>
    ELSE MemberFieldsReversed(Tail(members), obs, cfg) \o ConceptField(Head(members), obs, cfg)

ResultFormFieldReversed(c, obs, cfg) ==
    ConceptField(c, obs, cfg)
    \o (IF isPanel(c) THEN MemberFieldsReversed(c.setMembers, obs, cfg) ELSE <<>>)

\* ResultFormField: the concept's own field, then the members of a panel
ResultFormField(c, obs, cfg) ==
    ConceptField(c, obs, cfg)
    \o (IF isPanel(c) THEN MemberFields(c.setMembers, obs, cfg) ELSE <<>>)

(***************************************************************************)
(* unnamed/part_000: ResultFormField with every branch inline.             *)
(***************************************************************************)
\* the four branches of the concept itself, each behind its own predicate
OwnFields_part000(c, obs, cfg) ==
    (IF isText(c) THEN <<TextInput(c, c.uuid)>> ELSE <<>>)
    \o (IF isNumeric(c) THEN <<NumberInput(c, c.uuid)>> ELSE <<>>)
    \o (IF isCoded(c)
        THEN <<Select(c, PropUuid(IF obs.present THEN obs.value ELSE Undef),
                      AnswersGuardedByLength(c))>>
        ELSE <<>>)
    \o (IF isImage(c, cfg) THEN <<ImageHandlerInput(c)>> ELSE <<>>)

\* the four branches of one member
MemberField_part000(member, obs, cfg) ==
    (IF isText(member) THEN <<TextInput(member, "text-" \o member.uuid)>> ELSE <<>>)
    \o (IF isNumeric(member) THEN <<NumberInput(member, "number-" \o member.uuid)>> ELSE <<>>)
    \o (IF isCoded(member)
        THEN <<Select(member, getSavedMemberValue_part000(obs, member.uuid, member.datatype),
                      AnswersMapped(member))>>
        ELSE <<>>)
    \o (IF isImage(member, cfg) THEN <<ImageHandlerInput(member)>> ELSE <<>>)

RECURSIVE MemberFields_part000(_, _, _)
MemberFields_part000(members, obs, cfg) ==
    IF members = <<>> THEN <<>>
    ELSE MemberField_part000(Head(members), obs, cfg)
         \o MemberFields_part000(Tail(members), obs, cfg)

ResultFormField_part000(c, obs, cfg) ==
    OwnFields_part000(c, obs, cfg)
    \o (IF isPanel(c) THEN MemberFields_part000(c.setMembers, obs, cfg) ELSE <<>>)

Components == {"ConceptField", "part_000"}

(***************************************************************************)
(* Actions of the image capture adapter.                                   *)
(***************************************************************************)
NoOp ==
    [op |-> "none", field |-> undefined, modal |-> 0, arg |-> undefined,
     before |-> undefined, effects |-> <<>>]

\* onClick of the "Add image" button
ShowImageCaptureModal(field) ==
    /\ Len(modals) < MaxModals
    /\ modals' = Append(modals, CaptureModal(field))
    /\ lastOp' = [op |-> "showImageCaptureModal", field |-> field, modal |-> Len(modals) + 1,
                  arg |-> undefined, before |-> formValues[field], effects |-> <<>>]
    /\ UNCHANGED <<formValues, snackbars, allowedFileExtensions>>
    /\ UNCHANGED resolverVars

\* the workflow calls payload.saveFile(file); with multipleFiles it may call it
\* once per file, so a call can find the modal already closed
SaveFile(m, file) ==
    /\ m \in 1..Len(modals)
    /\ Run("saveFile", modals[m].field, m, file, saveFile(file))
    /\ UNCHANGED allowedFileExtensions
    /\ UNCHANGED resolverVars

\* the workflow calls payload.closeModal()
CloseModal(m) ==
    /\ m \in 1..Len(modals)
    /\ Run("closeModal", modals[m].field, m, undefined, closeModal)
    /\ UNCHANGED allowedFileExtensions
    /\ UNCHANGED resolverVars

\* onClick of the remove button, which is rendered only next to a thumbnail
HandleRemoveImage(field) ==
    /\ ImageHandlerInputView(formValues[field]).thumbnails # <<>>
    /\ Len(snackbars) < MaxSnackbars
    /\ Run("handleRemoveImage", field, 0, undefined, handleRemoveImage)
    /\ UNCHANGED allowedFileExtensions
    /\ UNCHANGED resolverVars

\* the allowed-extensions hook delivers another result (e.g. once loaded)
ExtensionsLoaded ==
    /\ \E r \in FewExtensionResults :
          /\ r # allowedFileExtensions
          /\ allowedFileExtensions' = r
    /\ lastOp' = [NoOp EXCEPT !.op = "useAllowedFileExtensions"]
    /\ UNCHANGED <<formValues, modals, snackbars>>
    /\ UNCHANGED resolverVars

Answer(u) == [uuid |-> u, display |-> "Answer " \o u]
TwoAnswers == [kind |-> "array", items |-> <<Answer("ans1"), Answer("ans2")>>]

\* a concept with the given predicate answers; the data type follows them
Concept(uuid, text, numeric, coded, panel, members) ==
    [uuid |-> uuid, display |-> "Test " \o uuid,
     isText |-> text, isNumeric |-> numeric, isCoded |-> coded, isPanel |-> panel,
     datatype |-> IF coded THEN "Coded" ELSE IF numeric THEN "Numeric"
                  ELSE IF text THEN "Text" ELSE "N/A",
     hl7Abbreviation |-> IF coded THEN "CWE" ELSE IF numeric THEN "NM"
                         ELSE IF text THEN "ST" ELSE "ZZ",
     lowAbsolute |-> Null, hiAbsolute |-> Null, units |-> undefined,
     answers |-> TwoAnswers, setMembers |-> members]

NoConcept == Concept(undefined, FALSE, FALSE, FALSE, FALSE, <<>>)

NoObservation == [present |-> FALSE, concept |-> undefined, value |-> Undef, groupMembers |-> <<>>]

NotRendered == [done |-> FALSE, threw |-> FALSE, widgets |-> <<>>]

ResolverIdle ==
    /\ component = "ConceptField"
    /\ concept = NoConcept
    /\ defaultValue = NoObservation
    /\ config = {}
    /\ rendered = NotRendered

Init ==
    /\ formValues = [f \in ImageFields |-> undefined]
    /\ modals = <<>>
    /\ snackbars = <<>>
    /\ allowedFileExtensions \in FewExtensionResults
    /\ lastOp = NoOp
    /\ ResolverIdle

Next ==
    \/ \E f \in ImageFields : ShowImageCaptureModal(f)
    \/ \E m \in 1..MaxModals, file \in Files \cup {undefined} : SaveFile(m, file)
    \/ \E m \in 1..MaxModals : CloseModal(m)
    \/ \E f \in ImageFields : HandleRemoveImage(f)
    \/ ExtensionsLoaded

Spec == Init /\ [][Next]_vars

(***************************************************************************)
(* The allow-list handed to the capture workflow, over every result of the *)
(* allowed-extensions hook.                                                *)
(***************************************************************************)
InitExt ==
    /\ formValues = [f \in ImageFields |-> undefined]
    /\ modals = <<>>
    /\ snackbars = <<>>
    /\ allowedFileExtensions \in ExtensionResults
    /\ lastOp = NoOp
    /\ ResolverIdle

NextExt == \E f \in ImageFields : ShowImageCaptureModal(f)

SpecExt == InitExt /\ [][NextExt]_vars

(***************************************************************************)
(* The resolver applied to bounded families of props.                      *)
(***************************************************************************)
MaxGroupMembers == 2   \* group members of an observation

TopUuid == "c0"
MemberUuid(i) == "m" \o IntToString(i)
GrandchildUuid(i) == "g" \o IntToString(i)

\* predicate answers of a member: <<text, numeric, coded, panel>>
MemberKinds ==
    { <<FALSE, FALSE, FALSE, FALSE>>, <<TRUE, FALSE, FALSE, FALSE>>,
      <<FALSE, TRUE, FALSE, FALSE>>, <<FALSE, FALSE, TRUE, FALSE>>,
      <<TRUE, TRUE, FALSE, FALSE>>, <<FALSE, FALSE, FALSE, TRUE>>,
      <<FALSE, FALSE, TRUE, TRUE>> }

\* a member; one that is a panel has a text concept as its own member
Member(i, k) ==
    Concept(MemberUuid(i), k[1], k[2], k[3], k[4],
            IF k[4] THEN <<Concept(GrandchildUuid(i), TRUE, FALSE, FALSE, FALSE, <<>>)>>
            ELSE <<>>)

Members(kinds) == [i \in 1..Len(kinds) |-> Member(i, kinds[i])]

\* classification: a concept without members under every combination of the
\* text, numeric, coded and image predicates, and concepts with members
ClassifyInputs ==
    \/ /\ \E t, n, cd \in BOOLEAN : concept = Concept(TopUuid, t, n, cd, FALSE, <<>>)
       /\ config \in SUBSET {TopUuid}
       /\ defaultValue = NoObservation
    \/ /\ \E cd, pn \in BOOLEAN :
          \E kinds \in SeqsUpTo(MemberKinds, MaxMembers) \ {<<>>} :
             /\ concept = Concept(TopUuid, FALSE, FALSE, cd, pn, Members(kinds))
             /\ config \in SUBSET ({TopUuid} \cup {MemberUuid(i) : i \in 1..Len(kinds)})
       /\ defaultValue = NoObservation

\* reference ranges: one leaf concept with every combination of data-type
\* code, bounds, unit and display name
RangeInputs ==
    /\ \E kind \in {<<TRUE, FALSE, FALSE>>, <<FALSE, TRUE, FALSE>>, <<FALSE, FALSE, TRUE>>},
          hl7 \in {"NM", "ST", undefined},
          low \in {Null, Num(0), Num(35), Num(-5)},
          hi \in {Null, Num(100), Num(2000)},
          units \in {undefined, "", "mg/dL"},
          display \in {undefined, "Hb"} :
          concept = [Concept(TopUuid, kind[1], kind[2], kind[3], FALSE, <<>>)
                        EXCEPT !.hl7Abbreviation = hl7, !.lowAbsolute = low,
                               !.hiAbsolute = hi, !.units = units, !.display = display]
    /\ config = {}
    /\ defaultValue = NoObservation

GroupMembers ==
    SeqsUpTo({[concept |-> u, value |-> v] :
                 u \in {MemberUuid(1), MemberUuid(2), "zz"},
                 v \in {Obj("ans2"), Prim("5"), Undef}}, MaxGroupMembers)

Observations ==
    {NoObservation}
    \cup {[present |-> TRUE, concept |-> u, value |-> v, groupMembers |-> g] :
             u \in {TopUuid, MemberUuid(1), MemberUuid(2)},
             v \in {Obj("ans1"), Prim("7"), Undef},
             g \in GroupMembers}

\* pre-fill: a panel of two coded members against every observation
PrefillInputs ==
    /\ \E cd \in BOOLEAN :
          concept = Concept(TopUuid, FALSE, FALSE, cd, TRUE,
                            Members(<< <<FALSE, FALSE, TRUE, FALSE>>,
                                       <<FALSE, FALSE, TRUE, FALSE>> >>))
    /\ config = {}
    /\ defaultValue \in Observations

MaxAnswers == 2   \* answers of a coded concept

\* an answer list as the REST resource delivers it: an array, or nothing
AnswerLists ==
    {[kind |-> "array", items |-> l] :
        l \in SeqsUpTo({Answer("ans1"), Answer("ans2")}, MaxAnswers)}
    \cup {[kind |-> k, items |-> <<>>] : k \in {"undefined", "null"}}

\* a value that is not a list: a non-empty string, a plain object
NotLists == {[kind |-> k, items |-> <<>>] : k \in {"string", "object"}}

\* a coded concept, alone or as a panel with one coded member
CodedWithAnswers(pn, top, sub) ==
    [Concept(TopUuid, FALSE, FALSE, TRUE, pn,
             IF pn
             THEN <<[Member(1, <<FALSE, FALSE, TRUE, FALSE>>) EXCEPT !.answers = sub]>>
             ELSE <<>>)
       EXCEPT !.answers = top]

\* answer lists: every pair of answer lists of the concept and its member
AnswerInputs ==
    /\ \E pn \in BOOLEAN, top, sub \in AnswerLists : concept = CodedWithAnswers(pn, top, sub)
    /\ config = {}
    /\ defaultValue = NoObservation

\* malformed answers: the concept's or the member's answers are not a list
MalformedAnswerInputs ==
    /\ \E pn \in BOOLEAN, top, sub \in AnswerLists \cup NotLists :
          /\ top \in NotLists \/ (pn /\ sub \in NotLists)
          /\ concept = CodedWithAnswers(pn, top, sub)
    /\ config = {}
    /\ defaultValue = NoObservation

InitRender ==
    /\ formValues = [f \in ImageFields |-> undefined]
    /\ modals = <<>>
    /\ snackbars = <<>>
    /\ allowedFileExtensions = [kind |-> "undefined", items |-> <<>>]
    /\ lastOp = NoOp
    /\ component \in Components
    /\ rendered = NotRendered
    /\ (ClassifyInputs \/ RangeInputs \/ PrefillInputs \/ AnswerInputs
          \/ MalformedAnswerInputs)

\* one render pass of the mounted revision
\* did evaluating the children of some widget throw
Throws(ws) ==
    \E i \in 1..Len(ws) : \E k \in 1..Len(ws[i].children) : ws[i].children[k] = TypeErrorNode

\* one render pass of the mounted revision; a pass that throws renders nothing
Render ==
    /\ ~rendered.done /\ ~rendered.threw
    /\ LET ws == IF component = "ConceptField"
                 THEN ResultFormField(concept, defaultValue, config)
                 ELSE ResultFormField_part000(concept, defaultValue, config)
       IN  rendered' = IF Throws(ws)
                       THEN [done |-> FALSE, threw |-> TRUE, widgets |-> <<>>]
                       ELSE [done |-> TRUE, threw |-> FALSE, widgets |-> ws]
    /\ UNCHANGED <<component, concept, defaultValue, config>>
    /\ UNCHANGED adapterVars

NextRender == Render

SpecRender == InitRender /\ [][NextRender]_vars

(***************************************************************************)
(* Properties of the field resolver.                                       *)
(***************************************************************************)
\* the widgets of ws bound to the concept uuid, in order
BoundTo(ws, uuid) == SelectSeq(ws, LAMBDA w : w.name = uuid)

\* the widgets of ws bound to anything but uuid, in order
NotBoundTo(ws, uuid) == SelectSeq(ws, LAMBDA w : w.name # uuid)

WidgetKinds(ws) == [i \in 1..Len(ws) |-> ws[i].widget]
WidgetNames(ws) == [i \in 1..Len(ws) |-> ws[i].name]

\* does the concept satisfy the predicate that leads to this kind of widget
Satisfies(c, kind) ==
    CASE kind = "ImageHandlerInput" -> isImage(c, config)
      [] kind = "TextInput"         -> isText(c)
      [] kind = "NumberInput"       -> isNumeric(c)
      [] kind = "Select"            -> isCoded(c)
      [] kind = "panel"             -> isPanel(c)

\* the first entry of order that the concept satisfies, if any
FirstMatch(c, order) ==
    LET hits == {i \in 1..Len(order) : Satisfies(c, order[i])}
    IN  IF hits = {} THEN <<>> ELSE <<order[CHOOSE i \in hits : \A j \in hits : i <= j]>>

\* every entry of order that the concept satisfies
AllMatches(c, order) == SelectSeq(order, LAMBDA kind : Satisfies(c, kind))

LeafKinds == {"ImageHandlerInput", "TextInput", "NumberInput", "Select"}

\* C6 as stated: one chain image, text, numeric, panel, coded; the first match
\* alone decides what is rendered for the concept, so a concept whose first
\* match is panel gets no widget of its own.
C6_PanelBeforeCoded ==
    rendered.done =>
        WidgetKinds(BoundTo(rendered.widgets, concept.uuid))
          = SelectSeq(FirstMatch(concept, <<"ImageHandlerInput", "TextInput", "NumberInput",
                                            "panel", "Select">>),
                      LAMBDA kind : kind \in LeafKinds)

\* C6: in ConceptField the concept's own widget is the first match of the chain
\* image, text, numeric, coded; the panel predicate is outside the chain, and
\* the members of a panel follow whatever the chain rendered.  In part_000
\* there is no chain: text, numeric, coded and image each render when they hold.
C6_ChainWithoutPanel ==
    rendered.done =>
        LET own  == BoundTo(rendered.widgets, concept.uuid)
            rest == NotBoundTo(rendered.widgets, concept.uuid)
        IN  /\ component = "ConceptField" =>
                 WidgetKinds(own)
                   = FirstMatch(concept, <<"ImageHandlerInput", "TextInput", "NumberInput", "Select">>)
            /\ component = "part_000" =>
                 WidgetKinds(own)
                   = AllMatches(concept, <<"TextInput", "NumberInput", "Select", "ImageHandlerInput">>)
            /\ rendered.widgets = own \o rest
            /\ rest # <<>> =>
                 /\ isPanel(concept)
                 /\ \E i \in 1..Len(concept.setMembers) :
                       \E kind \in LeafKinds : Satisfies(concept.setMembers[i], kind)
            /\ (isPanel(concept) /\ \E i \in 1..Len(concept.setMembers) :
                       \E kind \in LeafKinds : Satisfies(concept.setMembers[i], kind))
                 => rest # <<>>

\* ConceptField rendered a coded select for a concept that is also a panel,
\* and the members after it
C6_Witness ==
    /\ rendered.done
    /\ component = "ConceptField"
    /\ isPanel(concept) /\ isCoded(concept)
    /\ WidgetKinds(BoundTo(rendered.widgets, concept.uuid)) = <<"Select">>
    /\ Len(rendered.widgets) > 1
    /\ rendered.widgets[1].name = concept.uuid

\* C7: a concept gets exactly one widget when it satisfies image, text, numeric
\* or coded, and none when it satisfies no predicate (a concept that is only a
\* panel is represented by its members); no two widgets of a render are bound to
\* the same concept identifier.
C7_OneWidgetPerConcept ==
    rendered.done =>
        /\ Len(BoundTo(rendered.widgets, concept.uuid))
             = IF \E kind \in LeafKinds : Satisfies(concept, kind) THEN 1 ELSE 0
        /\ \A i, j \in 1..Len(rendered.widgets) :
              rendered.widgets[i].name = rendered.widgets[j].name => i = j

\* C7 holds of the ConceptField revision
C7_OneWidgetPerConcept_ConceptField ==
    component = "ConceptField" => C7_OneWidgetPerConcept

\* members in list order: the member index never decreases along ws
InMemberOrder(ws) ==
    \A i, j \in 1..Len(ws) :
        i < j =>
          \E a, b \in 1..Len(concept.setMembers) :
              /\ a <= b
              /\ ws[i].name = concept.setMembers[a].uuid
              /\ ws[j].name = concept.setMembers[b].uuid

\* C8 as stated: a panel renders exactly one widget per member, in member order,
\* and nothing for the members of a member.
C8_OneWidgetPerMember ==
    (rendered.done /\ isPanel(concept)) =>
        WidgetNames(NotBoundTo(rendered.widgets, concept.uuid))
          = [i \in 1..Len(concept.setMembers) |-> concept.setMembers[i].uuid]

\* C8: a panel renders the widgets of its members in member order and nothing
\* for the members of a member; ConceptField gives a member one widget when it
\* satisfies image, text, numeric or coded and none otherwise; part_000 gives a
\* member one widget for each of these predicates it satisfies.
C8_MembersInOrder ==
    (rendered.done /\ isPanel(concept)) =>
        LET rest == NotBoundTo(rendered.widgets, concept.uuid)
        IN  /\ \A i \in 1..Len(rest) :
                  \E a \in 1..Len(concept.setMembers) : rest[i].name = concept.setMembers[a].uuid
            /\ InMemberOrder(rest)
            /\ \A a \in 1..Len(concept.setMembers) :
                  LET m == concept.setMembers[a]
                  IN  WidgetKinds(BoundTo(rest, m.uuid))
                        = IF component = "ConceptField"
                          THEN FirstMatch(m, <<"ImageHandlerInput", "TextInput",
                                               "NumberInput", "Select">>)
                          ELSE AllMatches(m, <<"TextInput", "NumberInput", "Select",
                                               "ImageHandlerInput">>)

\* a panel of two members: the first satisfies no predicate and gets no widget,
\* the second is itself a panel and coded and gets a select; its member gets none
C8_Witness ==
    /\ rendered.done
    /\ component = "ConceptField"
    /\ isPanel(concept)
    /\ Len(concept.setMembers) = 2
    /\ ~\E kind \in LeafKinds : Satisfies(concept.setMembers[1], kind)
    /\ isPanel(concept.setMembers[2]) /\ concept.setMembers[2].setMembers # <<>>
    /\ WidgetNames(NotBoundTo(rendered.widgets, concept.uuid)) = <<MemberUuid(2)>>

\* a panel whose two members each got exactly one widget, in member order
C8_WitnessTwoMembers ==
    /\ rendered.done
    /\ isPanel(concept)
    /\ WidgetNames(NotBoundTo(rendered.widgets, concept.uuid)) = <<MemberUuid(1), MemberUuid(2)>>
    /\ WidgetKinds(NotBoundTo(rendered.widgets, concept.uuid)) = <<"NumberInput", "TextInput">>

\* the display name part of a label
DisplayPrefix(c) == IF TruthyString(c.display) THEN c.display \o " " ELSE ""

\* C9: the label of a concept with data-type code NM, both bounds and a unit
\* ends in " (<low> - <high> <unit>)" with single spaces, e.g.
\* " (3.5 - 10 mg/dL)"; the label of a concept with another data-type code has
\* no range suffix.
C9_RangeSuffix ==
    rendered.done =>
        \A i \in 1..Len(rendered.widgets) :
            LET w == rendered.widgets[i]
            IN  (w.name = concept.uuid /\ w.widget # "ImageHandlerInput") =>
                  /\ (/\ concept.hl7Abbreviation = "NM"
                      /\ ~concept.lowAbsolute.isNull
                      /\ ~concept.hiAbsolute.isNull
                      /\ TruthyString(concept.units)) =>
                        w.labelText = DisplayPrefix(concept) \o " ("
                                        \o NumberToString(concept.lowAbsolute) \o " - "
                                        \o NumberToString(concept.hiAbsolute) \o " "
                                        \o concept.units \o ")"
                  /\ (/\ concept.hl7Abbreviation = "NM"
                      /\ concept.lowAbsolute = Num(35)
                      /\ concept.hiAbsolute = Num(100)
                      /\ concept.units = "mg/dL") =>
                        w.labelText = DisplayPrefix(concept) \o " (3.5 - 10 mg/dL)"
                  /\ concept.hl7Abbreviation # "NM" => w.labelText = DisplayPrefix(concept)

\* the part of C9 about other data-type codes: no range suffix
C9_NoSuffixUnlessNM ==
    rendered.done =>
        \A i \in 1..Len(rendered.widgets) :
            LET w == rendered.widgets[i]
            IN  (w.name = concept.uuid /\ w.widget # "ImageHandlerInput"
                   /\ concept.hl7Abbreviation # "NM")
                  => w.labelText = DisplayPrefix(concept)

\* C10: the select of a panel member is pre-filled with the observation's own
\* value when the member is the observation's concept; otherwise with the value
\* identifier of the observation's group member for that concept; and with
\* nothing when neither exists.
C10_Prefill ==
    rendered.done =>
        \A i \in 1..Len(rendered.widgets) :
            LET w == rendered.widgets[i]
                hits == {k \in 1..Len(defaultValue.groupMembers) :
                            defaultValue.groupMembers[k].concept = w.name}
            IN  (w.widget = "Select" /\ w.name # concept.uuid) =>
                  w.defaultValue
                    = IF defaultValue.present /\ w.name = defaultValue.concept
                      THEN defaultValue.value
                      ELSE IF defaultValue.present /\ hits # {}
                      THEN PropUuid(defaultValue.groupMembers[
                                       CHOOSE k \in hits : \A l \in hits : k <= l].value)
                      ELSE Undef

\* C10 holds of the ConceptField revision
C10_Prefill_ConceptField ==
    component = "ConceptField" => C10_Prefill

\* the concept a widget is bound to: the concept itself or one of its members
ConceptNamed(uuid) ==
    IF uuid = concept.uuid THEN concept
    ELSE concept.setMembers[CHOOSE a \in 1..Len(concept.setMembers) :
                               concept.setMembers[a].uuid = uuid]

\* one option per answer, in list order, with the answer's uuid as value
OptionsOf(answers) ==
    IF answers.kind = "array"
    THEN [k \in 1..Len(answers.items) |->
            [node |-> "SelectItem", text |-> answers.items[k].display,
             value |-> answers.items[k].uuid]]
    ELSE <<>>

\* C11: rendering never fails, and every rendered select holds the 'Choose an
\* option' entry followed by one option per answer in list order, which is
\* nothing more than the placeholder when the answer list is absent, not a
\* list, or empty.
C11_SelectOptions ==
    /\ ~rendered.threw
    /\ rendered.done =>
          \A i \in 1..Len(rendered.widgets) :
              LET w == rendered.widgets[i]
              IN  w.widget = "Select" =>
                    w.children = <<[node |-> "SelectItem", text |-> "Choose an option",
                                    value |-> ""]>>
                                 \o OptionsOf(ConceptNamed(w.name).answers)

\* the part of C11 about a list that is not empty holds in both revisions
C11_NonEmptyList ==
    rendered.done =>
        \A i \in 1..Len(rendered.widgets) :
            LET w == rendered.widgets[i]
                answers == ConceptNamed(w.name).answers
            IN  (w.widget = "Select" /\ answers.kind = "array" /\ answers.items # <<>>) =>
                  /\ Len(w.children) = 1 + Len(answers.items)
                  /\ w.children[1].value = ""
                  /\ \A k \in 1..Len(answers.items) :
                        w.children[k + 1].value = answers.items[k].uuid

\* the part of C11 about an absent list holds in both revisions
C11_AbsentList ==
    rendered.done =>
        \A i \in 1..Len(rendered.widgets) :
            LET w == rendered.widgets[i]
            IN  (w.widget = "Select" /\ Nullish(ConceptNamed(w.name).answers)) =>
                  Len(w.children) = 1

(***************************************************************************)
(* Properties of the image capture adapter.                                *)
(***************************************************************************)
AdapterTypeOK ==
    /\ formValues \in [ImageFields -> Files \cup {undefined}]
    /\ \A f \in ImageFields : Len(ImageHandlerInputView(formValues[f]).thumbnails) <= 1

SetterCalls(op) == SelectSeq(op.effects, LAMBDA eff : eff.e = "setValue")

\* C1: saving a file into a field makes the field hold exactly that file and the
\* thumbnail show its content; removing it makes the field empty again and
\* emits exactly one success notification; no other handler emits one.
C1_SaveThenRemove ==
    [][/\ (lastOp'.op = "saveFile" /\ lastOp'.arg \in Files) =>
            /\ formValues'[lastOp'.field] = lastOp'.arg
            /\ Len(ImageHandlerInputView(formValues'[lastOp'.field]).thumbnails) = 1
            /\ ImageHandlerInputView(formValues'[lastOp'.field]).thumbnails[1].src
                  = UploadedFile(lastOp'.arg).base64Content
            /\ \A f \in ImageFields \ {lastOp'.field} : formValues'[f] = formValues[f]
       /\ lastOp'.op = "handleRemoveImage" =>
            /\ formValues[lastOp'.field] \in Files
            /\ formValues'[lastOp'.field] = undefined
            /\ ImageHandlerInputView(formValues'[lastOp'.field]).thumbnails = <<>>
            /\ snackbars' = Append(snackbars, Snackbar)
            /\ Snackbar.kind = "success"
       /\ lastOp'.op # "handleRemoveImage" => snackbars' = snackbars
      ]_vars

\* a field that was empty, got a file saved, and was then emptied by remove
C1_Witness ==
    /\ lastOp.op = "handleRemoveImage"
    /\ lastOp.before \in Files
    /\ formValues[lastOp.field] = undefined
    /\ Len(snackbars) = 1

\* C2: dismissing the workflow without saving (closeModal, or saveFile with no
\* file) leaves every field value as it was and does not call the setter.
C2_DismissKeepsValue ==
    [][(lastOp'.op = "closeModal" \/ (lastOp'.op = "saveFile" /\ lastOp'.arg = undefined)) =>
            /\ formValues' = formValues
            /\ SetterCalls(lastOp') = <<>>
      ]_vars

\* a populated field whose workflow was dismissed by saveFile(undefined)
C2_Witness ==
    /\ lastOp.op = "saveFile"
    /\ lastOp.arg = undefined
    /\ lastOp.before \in Files
    /\ formValues[lastOp.field] = lastOp.before

\* C3: saveFile with a file calls the setter with that file and then closes the
\* workflow; saveFile without a file and closeModal only close it; after either
\* callback the workflow is closed.
C3_SaveThenClose ==
    [][/\ (lastOp'.op = "saveFile" /\ lastOp'.arg \in Files) =>
            lastOp'.effects = <<SetValueEffect(lastOp'.arg), CloseEffect>>
       /\ (lastOp'.op = "saveFile" /\ lastOp'.arg = undefined) =>
            lastOp'.effects = <<CloseEffect>>
       /\ lastOp'.op = "closeModal" => lastOp'.effects = <<CloseEffect>>
       /\ lastOp'.op \in {"saveFile", "closeModal"} =>
            /\ ~modals'[lastOp'.modal].open
            /\ \A m \in 1..Len(modals) : m # lastOp'.modal => modals'[m] = modals[m]
      ]_vars

\* a workflow that was open and is closed after saveFile stored a file
C3_Witness ==
    /\ lastOp.op = "saveFile"
    /\ lastOp.arg \in Files
    /\ ~modals[lastOp.modal].open
    /\ formValues[lastOp.field] = lastOp.arg
    /\ \E m \in 1..Len(modals) : modals[m].open

\* C4: a field holds no attachment or one; a capture on a populated field
\* replaces the stored attachment by the new file; every workflow is opened
\* with the multi-file flag set.
C4_SingleSlot ==
    [][/\ AdapterTypeOK'
       /\ (lastOp'.op = "saveFile" /\ lastOp'.arg \in Files) =>
            /\ formValues'[lastOp'.field] = lastOp'.arg
            /\ Len(ImageHandlerInputView(formValues'[lastOp'.field]).thumbnails) = 1
       /\ \A m \in 1..Len(modals') : modals'[m].multipleFiles
      ]_vars

\* a populated field whose attachment was replaced by another capture
C4_Witness ==
    /\ lastOp.op = "saveFile"
    /\ lastOp.before = "fileA"
    /\ lastOp.arg = "fileB"
    /\ formValues[lastOp.field] = "fileB"
    /\ modals[lastOp.modal].multipleFiles

\* an extension with "pdf" in it, in any letter case
HasPdf(ext) ==
    \E i \in 1..(Len(ext) - 2) :
        /\ ext[i] \in {"p", "P"}
        /\ ext[i + 1] \in {"d", "D"}
        /\ ext[i + 2] \in {"f", "F"}

\* out is in with the positions in drop left out, order kept
IsWithout(out, in, drop) ==
    LET kept == (1..Len(in)) \ drop
        Nth(k) == CHOOSE i \in kept : Cardinality({j \in kept : j <= i}) = k
    IN  /\ Len(out) = Cardinality(kept)
        /\ \A k \in 1..Len(out) : out[k] = in[Nth(k)]

\* C5: the allow-list of every opened workflow is the hook's list without the
\* extensions that contain "pdf" in any letter case, order kept; it is empty
\* when the hook returns no list; ["jpg","PDF","png"] gives ["jpg","png"].
C5_AllowList ==
    \A m \in 1..Len(modals) :
        /\ allowedFileExtensions.kind = "array" =>
              IsWithout(modals[m].allowedExtensions, allowedFileExtensions.items,
                        {i \in 1..Len(allowedFileExtensions.items) :
                            HasPdf(allowedFileExtensions.items[i])})
        /\ allowedFileExtensions.kind # "array" => modals[m].allowedExtensions = <<>>
        /\ allowedFileExtensions.items = << <<"j","p","g">>, <<"P","D","F">>, <<"p","n","g">> >>
              => modals[m].allowedExtensions = << <<"j","p","g">>, <<"p","n","g">> >>

\* a workflow opened with the list jpg, PDF, png
C5_Witness ==
    /\ allowedFileExtensions.items = << <<"j","p","g">>, <<"P","D","F">>, <<"p","n","g">> >>
    /\ Len(modals) > 0
    /\ modals[1].allowedExtensions = << <<"j","p","g">>, <<"p","n","g">> >>

\* a workflow opened while the hook returned no list
C5_WitnessNoList ==
    /\ allowedFileExtensions.kind = "string"
    /\ Len(modals) > 0
    /\ modals[1].allowedExtensions = <<>>

====
